---- MODULE Spec2Model ----
(***************************************************************************)
(* Model of the video/audio analysis pipeline of ai-video-analyzer.        *)
(*                                                                         *)
(* Server side: the upload endpoint and the background task                *)
(* process_video_async of src/video-analyzer.md (the only server code in   *)
(* src/).  The retry and submit endpoints, the per-media progress log      *)
(* store and the log stream are not in src/ (only their callers in the     *)
(* Next.js client are); they are modelled from spec.md sections 4.1, 4.4   *)
(* and 6.                                                                  *)
(* Client side: the dashboard's retry button (VideoCard, handleRetry) and  *)
(* the merge-by-id of the SSE progress terminal.                           *)
(***************************************************************************)
EXTENDS Integers, Sequences, FiniteSets, TLC

\* ---------------------------------------------------------------- bounds
\* Retry requests the dashboard has sent and the server has not yet handled.
MaxInFlight == 2
\* Background tasks scheduled in one behaviour (by uploads, accepted retries
\* and accepted submits).
MaxRuns == 3
\* Upper bound on the keyframes one extraction returns in the model
\* (the code's own cap is max_frames = 10).
NumKeyframes == 1
\* Snapshot requests a log receiver sends in one behaviour.
MaxSnapshots == 1
\* Frames of a file given to the keyframe extraction.
MaxFrames == 4
\* The largest max_frames given to the keyframe extraction.
MaxKeyframes == 3
\* Interval timers the static client sets in one behaviour.
MaxTimers == 2
\* Videos the user opens and uploads the user makes in one behaviour.
MaxClicks == 2
\* Upload requests the upload view sends in one behaviour.
MaxUploads == 2
\* Openings of the settings view in one behaviour.
MaxOpens == 3
\* Click listeners on the list of saved configurations.
MaxListeners == 6
\* Saved configurations the server answers with.
MaxConfigs == 2
\* Errors the log stream of one ProgressTerminal meets in one behaviour.
MaxStreamErrors == 2

\* Media ids the upload endpoint can hand out (database primary keys).
Media == {1, 2}
\* Background task ids: one per upload, accepted retry or accepted submit.
RunIds == 1..MaxRuns

Kinds == {"video", "audio"}
Statuses == {"pending", "processing", "completed", "failed"}

\* The stage sequence of process_video_async (video) ...
VideoStages ==
    <<"extract_audio", "transcribe", "extract_keyframes", "describe_frames", "synthesize">>
\* ... and of the audio pipeline.
AudioStages ==
    <<"prepare_audio", "transcribe", "enrich", "synthesize">>

StageSeq(k) == IF k = "video" THEN VideoStages ELSE AudioStages

StageNames == {"extract_audio", "prepare_audio", "transcribe", "enrich",
               "extract_keyframes", "describe_frames", "synthesize"}

Range(s) == {s[i] : i \in DOMAIN s}

IndexOf(s, x) == CHOOSE i \in DOMAIN s : s[i] = x

\* A variant: the stage after st is skipped.
NextStage_Skip(k, st) ==
    LET sq == StageSeq(k)
        i  == IndexOf(sq, st)
    IN  IF i + 1 >= Len(sq) THEN "commit" ELSE sq[i + 2]

\* The stage after st in the sequence of kind k ("commit" after the last).
NextStage(k, st) ==
    LET sq == StageSeq(k)
        i  == IndexOf(sq, st)
    IN  IF i = Len(sq) THEN "commit" ELSE sq[i + 1]

NoRun == [pc |-> "none"]

VARIABLES
    status,        \* Video.status per media id; "none" before the upload
    kind,          \* media kind per media id
    freeIds,       \* ids the upload endpoint has not handed out yet
    scenes,        \* per media id: the keyframes its extraction finds
    runs,          \* background tasks: RunIds -> run record or NoRun
    log,           \* progress log per media id: sequence of entries
    transcripts,   \* Transcript rows per media id: sequence of run ids
    keyframes,     \* Keyframe rows per media id: sequence of [run, idx]
    analyses,      \* Analysis rows per media id: sequence of run ids
    lastError,     \* the error the last request or run start ended with, or "none"
    clientStatus,  \* the dashboard's copy of each video's status
    retryInFlight, \* POST /videos/{id}/retry requests sent, not yet handled
    sub,           \* one log stream subscription
    recv,          \* the receiver's merged list of log entries
    snapInFlight,  \* snapshot responses on their way to the receiver
    snapsLeft,     \* snapshot requests left in this behaviour
    termStatus,    \* ProgressTerminal: the status prop its effect last ran with
    es,            \* ProgressTerminal: the EventSource of the effect
    retryDelay,    \* ProgressTerminal: the retryDelay state
    capturedDelay, \* ProgressTerminal: the retryDelay the effect's closure holds
    timers,        \* ProgressTerminal: delays of the reconnect timeouts pending
    interval,      \* ProgressTerminal: the polling interval is set
    shown,         \* ProgressTerminal: the logs state (the list displayed)
    fetching,      \* ProgressTerminal: GET /videos/{id}/logs responses on their way
    waits,         \* delays of the failed attempts in a row (a history)
    errorsLeft,    \* stream errors left in this behaviour
    video,         \* keyframe extraction: the frames of the file
    config,        \* keyframe extraction: threshold and max_frames
    scan,          \* keyframe extraction: the loop's locals
    pageStatus,    \* VideoDetailPage: data.video.status, "none" before the answer
    pollStatus,    \* polling ProgressTerminal: the status prop its effect last ran with
    pollInterval,  \* polling ProgressTerminal: the interval is set
    pollShown,     \* polling ProgressTerminal: the logs state
    pollFetching,  \* polling ProgressTerminal: answers to fetchLogs on their way
    currentVideoId,  \* static client: AppState.currentVideoId, 0 for null
    pollingInterval, \* static client: AppState.pollingInterval, 0 for null
    liveTimers,      \* static client: the interval timers set and not cleared
    nextHandle,      \* static client: the handle the next setInterval returns
    detailRequests,  \* static client: showVideoDetail's requests not yet answered
    pollRequests,    \* static client: requests of interval ticks not yet answered
    navTimers,       \* static client: media whose setTimeout(showVideoDetail) is pending
    detailShown,     \* static client: the media the detail view renders, 0 for none
    uploaded,        \* static client: media whose upload startAnalysis has seen answered
    uploadBusy,      \* static client: the upload view shows the processing container
    clicksLeft,      \* user actions left in this behaviour
    selectedFile,     \* upload view: AppState.selectedFile, NoFile for null
    currentMediaType, \* upload view: AppState.currentMediaType
    dropZone,         \* upload view: the file the drop zone displays, NoFile for the form
    contextValid,     \* upload view: the description is long enough
    startDisabled,    \* upload view: startAnalysisBtn.disabled
    sending,          \* upload view: the upload request not yet answered, or NoUpload
    formHidden,       \* upload view: the form is hidden, the processing container shown
    uploads,          \* the upload requests sent (a history)
    docListeners,     \* settings: click listeners setupEventListeners has put on document
    listListeners,    \* settings: click listeners on the savedConfigsList container
    configs,          \* settings: the length of Settings.configs, as rendered
    lastClick,        \* settings: the button the user clicked last, or "none"
    handled,          \* settings: handler calls the last click has triggered
    pending,          \* settings: handler calls waiting for the server's answer
    opensLeft         \* settings: openings of the settings view left in this behaviour

pipeVars == <<status, kind, freeIds, scenes, runs, log, transcripts, keyframes, analyses>>
reqVars == <<lastError, clientStatus, retryInFlight>>
streamVars == <<sub, recv, snapInFlight, snapsLeft>>
termVars == <<termStatus, es, retryDelay, capturedDelay, timers, interval, shown,
              fetching, waits, errorsLeft>>
engVars == <<video, config, scan>>
pageVars == <<pageStatus, pollStatus, pollInterval, pollShown, pollFetching>>
staticVars == <<currentVideoId, pollingInterval, liveTimers, nextHandle, detailRequests,
                pollRequests, navTimers, detailShown, uploaded, uploadBusy, clicksLeft>>
uploadVars == <<selectedFile, currentMediaType, dropZone, contextValid, startDisabled,
                sending, formHidden, uploads>>
settingsVars == <<docListeners, listListeners, configs, lastClick, handled, pending,
                  opensLeft>>
viewVars == <<uploadVars, settingsVars>>
restVars == <<pageVars, staticVars, viewVars>>
extVars == <<termVars, engVars, restVars>>
vars == <<status, kind, freeIds, scenes, runs, log, transcripts, keyframes, analyses,
          lastError, clientStatus, retryInFlight,
          sub, recv, snapInFlight, snapsLeft,
          termStatus, es, retryDelay, capturedDelay, timers, interval, shown,
          fetching, waits, errorsLeft,
          video, config, scan,
          pageStatus, pollStatus, pollInterval, pollShown, pollFetching,
          currentVideoId, pollingInterval, liveTimers, nextHandle, detailRequests,
          pollRequests, navTimers, detailShown, uploaded, uploadBusy, clicksLeft,
          selectedFile, currentMediaType, dropZone, contextValid, startDisabled,
          sending, formHidden, uploads,
          docListeners, listListeners, configs, lastClick, handled, pending, opensLeft>>

\* ------------------------------------------------------- progress log store
\* A variant: the counter is not advanced.
NextSeq_Stuck(lg) == IF lg = <<>> THEN 1 ELSE lg[Len(lg)].seq

\* A variant: the new entry is put in front of the older ones.
AppendEntry_Front(lg, level, stage, run) ==
    <<[seq |-> Len(lg) + 1, level |-> level, stage |-> stage, run |-> run]>> \o lg

\* append(mediaId, level, message): the entry gets the next sequence number
\* of that media id.
NextSeq(lg) == IF lg = <<>> THEN 1 ELSE lg[Len(lg)].seq + 1

AppendEntry(lg, level, stage, run) ==
    Append(lg, [seq |-> NextSeq(lg), level |-> level, stage |-> stage, run |-> run])

\* Several logger calls of one step, in order: items is a sequence of <<level, stage>>.
RECURSIVE AppendAll(_, _, _)
AppendAll(lg, items, run) ==
    IF items = <<>> THEN lg
    ELSE AppendAll(AppendEntry(lg, items[1][1], items[1][2], run), Tail(items), run)

\* ------------------------------------------------------------ background task
\* Run ids are handed out in increasing order and never reused.
FreeRun == CHOOSE r \in RunIds : runs[r] = NoRun /\ \A q \in RunIds : runs[q] = NoRun => r <= q

HasFreeRun == \E r \in RunIds : runs[r] = NoRun

\* A scheduled task.  hist is the list of stages the run has started (a
\* history kept for the checks); n, idx and descs are keyframes_list's length,
\* the loop index and len(keyframes_with_descriptions).
NewRun(m, origin) ==
    [pc |-> "queued", media |-> m, origin |-> origin, n |-> 0, idx |-> 0,
     descs |-> 0, failedAt |-> "none", hist |-> <<>>]

DoneRun == [pc |-> "done"]

MinOf(S) == CHOOSE x \in S : \A y \in S : x <= y

Live(r) == runs[r].pc \notin {"none", "done"}

\* A run that is executing a stage.
InStage(r) == runs[r].pc \in StageNames

\* A variant: the record is left with the column's default status.
UploadStatus_Default == "pending"

\* The status the upload endpoint creates the record with.
UploadStatus == "processing"

\* POST /upload (and /upload-audio): the record is created with
\* status "processing" and the task is scheduled.
Upload(k, n) ==
    /\ freeIds # {}
    /\ (k = "audio") => n = 0
    /\ HasFreeRun
    /\ LET m == MinOf(freeIds)
           r == FreeRun
       IN  /\ freeIds' = freeIds \ {m}
           /\ status' = [status EXCEPT ![m] = UploadStatus]
           /\ kind' = [kind EXCEPT ![m] = k]
           /\ scenes' = [scenes EXCEPT ![m] = n]
           /\ runs' = [runs EXCEPT ![r] = NewRun(m, "upload")]
           /\ lastError' = "none"
    /\ UNCHANGED <<log, transcripts, keyframes, analyses, clientStatus,
                   retryInFlight>>
    /\ UNCHANGED streamVars
    /\ UNCHANGED extVars

\* A variant: the task starts whatever the status is.
RunMayStart_Always(r) == TRUE

\* run(mediaId)'s precondition: the record is pending.  Checked and set under
\* the media-id lock, so the check and the write are one step.
RunMayStart(r) ==
    runs[r].origin = "upload" \/ status[runs[r].media] = "pending"

EnterFirstStage(r) ==
    LET m  == runs[r].media
        st == StageSeq(kind[m])[1]
    IN  /\ status' = IF runs[r].origin = "upload" THEN status
                     ELSE [status EXCEPT ![m] = "processing"]
        /\ runs' = [runs EXCEPT ![r].pc = st, ![r].hist = <<st>>]
        /\ log' = [log EXCEPT ![m] = AppendEntry(log[m], "INFO", "start", r)]
        /\ lastError' = "none"

RejectRun(r) ==
    /\ runs' = [runs EXCEPT ![r] = DoneRun]
    /\ lastError' = "InvalidTransition"
    /\ UNCHANGED <<status, log>>

\* The worker picks the task up: "Inizio processing video", then the first stage.
StartRun(r) ==
    /\ runs[r].pc = "queued"
    /\ IF RunMayStart(r) THEN EnterFirstStage(r) ELSE RejectRun(r)
    /\ UNCHANGED <<kind, freeIds, scenes, transcripts, keyframes, analyses,
                   clientStatus, retryInFlight>>
    /\ UNCHANGED streamVars
    /\ UNCHANGED extVars

\* What a stage logs before its capability call, and after it on success.
LogsBefore(st) ==
    IF st = "transcribe" THEN << <<"INFO", "transcribe">> >> ELSE <<>>

LogsAfter(st, n) ==
    CASE st \in {"extract_audio", "prepare_audio"} -> << <<"INFO", st>> >>
      [] st = "transcribe" -> << <<"INFO", "transcribe">> >>
      [] st = "extract_keyframes" -> [i \in 1..n |-> <<"INFO", "extract_keyframes">>]
      [] OTHER -> <<>>

SimpleStages == {"extract_audio", "prepare_audio", "transcribe", "enrich", "extract_keyframes"}

Advance(run, k, st) ==
    LET nx == NextStage(k, st)
    IN  [run EXCEPT !.pc = nx, !.hist = Append(run.hist, nx)]

\* The keyframes_list a stage leaves behind: extract_keyframes's result.
Found(m, st) == IF st = "extract_keyframes" THEN scenes[m] ELSE 0

\* A stage returns: its artifact is saved and the next stage starts.
StageReturns(r) ==
    LET m  == runs[r].media
        st == runs[r].pc
        n  == Found(m, st)
    IN  /\ st \in SimpleStages
        /\ log' = [log EXCEPT ![m] = AppendAll(log[m], LogsBefore(st) \o LogsAfter(st, n), r)]
        /\ transcripts' = IF st = "transcribe"
                          THEN [transcripts EXCEPT ![m] = Append(transcripts[m], r)]
                          ELSE transcripts
        /\ runs' = [runs EXCEPT ![r] = [Advance(runs[r], kind[m], st) EXCEPT !.n = n]]
        /\ UNCHANGED <<status, kind, freeIds, scenes, keyframes, analyses>>
        /\ UNCHANGED reqVars
        /\ UNCHANGED streamVars
        /\ UNCHANGED extVars

\* A variant: the exception ends the task, no clause catches it.
Raised_Lost(run, st) == DoneRun

\* Where an exception raised in stage st takes the task: the except clause
\* of process_video_async.
Raised(run, st) == [run EXCEPT !.pc = "except", !.failedAt = st]

\* A stage raises (ffmpeg fails, the capability call fails, a frame cannot be
\* decoded): control goes to the except clause.  j keyframes were logged
\* before extract_keyframes raised.
StageRaises(r, j) ==
    LET m  == runs[r].media
        st == runs[r].pc
    IN  /\ st \in SimpleStages
        /\ j <= Found(m, st)
        /\ log' = [log EXCEPT ![m] = AppendAll(log[m], LogsBefore(st) \o
                        (IF st = "extract_keyframes" THEN LogsAfter(st, j) ELSE <<>>), r)]
        /\ runs' = [runs EXCEPT ![r] = Raised(runs[r], st)]
        /\ UNCHANGED <<status, kind, freeIds, scenes, transcripts, keyframes, analyses>>
        /\ UNCHANGED reqVars
        /\ UNCHANGED streamVars
        /\ UNCHANGED extVars

\* One iteration of the describe-frames loop.  ok: the description, the
\* upload and the Keyframe row succeed.  Otherwise the except clause inside
\* the loop logs "Errore Vision frame" and the loop goes on.
FrameOutcome(run, m, r, ok) ==
    [kf  |-> IF ok THEN Append(keyframes[m], [run |-> r, idx |-> run.idx]) ELSE keyframes[m],
     lg  |-> IF ok THEN log[m] ELSE AppendEntry(log[m], "ERROR", "describe_frames", r),
     run |-> [run EXCEPT !.idx = run.idx + 1,
                         !.descs = IF ok THEN run.descs + 1 ELSE run.descs]]

DescribeFrame(r, ok) ==
    /\ runs[r].pc = "describe_frames"
    /\ runs[r].idx < runs[r].n
    /\ LET m == runs[r].media
           o == FrameOutcome(runs[r], m, r, ok)
       IN  /\ keyframes' = [keyframes EXCEPT ![m] = o.kf]
           /\ log' = [log EXCEPT ![m] = o.lg]
           /\ runs' = [runs EXCEPT ![r] = o.run]
    /\ UNCHANGED <<status, kind, freeIds, scenes, transcripts, analyses>>
    /\ UNCHANGED reqVars
    /\ UNCHANGED streamVars
    /\ UNCHANGED extVars

\* The loop is over: the synthesis starts.
EndDescribe(r) ==
    /\ runs[r].pc = "describe_frames"
    /\ runs[r].idx = runs[r].n
    /\ runs' = [runs EXCEPT ![r] = Advance(runs[r], kind[runs[r].media], "describe_frames")]
    /\ UNCHANGED <<status, kind, freeIds, scenes, log, transcripts, keyframes, analyses>>
    /\ UNCHANGED reqVars
    /\ UNCHANGED streamVars
    /\ UNCHANGED extVars

SynthOutcomes == {"ok", "unusable", "raise"}

\* analyze_full_flow's logger calls: "Analisi completa in corso" before the
\* call; after it "Analisi completata", preceded by a warning when the answer
\* is not JSON (the raw text is then kept as the analysis).
SynthLogs(outcome) ==
    << <<"INFO", "synthesize">> >> \o
    (CASE outcome = "ok" -> << <<"INFO", "synthesize">> >>
       [] outcome = "unusable" -> << <<"WARNING", "synthesize">>, <<"INFO", "synthesize">> >>
       [] OTHER -> <<>>)

\* The record's status after the final commit of a successful run.
CommitStatus == "completed"

\* A variant: an answer that is not JSON is not saved as an Analysis row, and
\* the status is committed all the same.
Synthesize_NoRow(r, outcome) ==
    /\ runs[r].pc = "synthesize"
    /\ LET m == runs[r].media
       IN  /\ log' = [log EXCEPT ![m] = AppendAll(log[m], SynthLogs(outcome), r)]
           /\ IF outcome = "raise"
              THEN /\ runs' = [runs EXCEPT ![r] = Raised(runs[r], "synthesize")]
                   /\ UNCHANGED <<analyses, status>>
              ELSE /\ runs' = [runs EXCEPT ![r].pc = "finish"]
                   /\ analyses' = [analyses EXCEPT ![m] =
                          IF outcome = "ok" THEN Append(analyses[m], r) ELSE analyses[m]]
                   /\ status' = [status EXCEPT ![m] = CommitStatus]
    /\ UNCHANGED <<kind, freeIds, scenes, transcripts, keyframes>>
    /\ UNCHANGED reqVars
    /\ UNCHANGED streamVars
    /\ UNCHANGED extVars

\* The synthesis, then the Analysis row and status "completed" in one commit.
Synthesize(r, outcome) ==
    /\ runs[r].pc = "synthesize"
    /\ LET m == runs[r].media
       IN  /\ log' = [log EXCEPT ![m] = AppendAll(log[m], SynthLogs(outcome), r)]
           /\ IF outcome = "raise"
              THEN /\ runs' = [runs EXCEPT ![r] = Raised(runs[r], "synthesize")]
                   /\ UNCHANGED <<analyses, status>>
              ELSE /\ runs' = [runs EXCEPT ![r].pc = "finish"]
                   /\ analyses' = [analyses EXCEPT ![m] = Append(analyses[m], r)]
                   /\ status' = [status EXCEPT ![m] = CommitStatus]
    /\ UNCHANGED <<kind, freeIds, scenes, transcripts, keyframes>>
    /\ UNCHANGED reqVars
    /\ UNCHANGED streamVars
    /\ UNCHANGED extVars

\* After the commit: "Processing completato", then the finally clause.
FinishRun(r) ==
    /\ runs[r].pc = "finish"
    /\ LET m == runs[r].media
       IN  log' = [log EXCEPT ![m] = AppendEntry(log[m], "INFO", "completed", r)]
    /\ runs' = [runs EXCEPT ![r] = DoneRun]
    /\ UNCHANGED <<status, kind, freeIds, scenes, transcripts, keyframes, analyses>>
    /\ UNCHANGED reqVars
    /\ UNCHANGED streamVars
    /\ UNCHANGED extVars

\* A variant: the except clause logs nothing.
ExceptLog_Silent(lg, run, r) == lg

\* The except clause: what it logs ...
ExceptLog(lg, run, r) == AppendEntry(lg, "ERROR", run.failedAt, r)

\* ... and the status it commits.
ExceptStatus == "failed"

\* A variant: the except clause also rolls back the run's transcript.
ExceptHandler_Rollback(r) ==
    /\ runs[r].pc = "except"
    /\ LET m == runs[r].media
           NotOfRun(t) == t # r
       IN  /\ log' = [log EXCEPT ![m] = ExceptLog(log[m], runs[r], r)]
           /\ status' = [status EXCEPT ![m] = ExceptStatus]
           /\ transcripts' = [transcripts EXCEPT ![m] = SelectSeq(transcripts[m], NotOfRun)]
    /\ runs' = [runs EXCEPT ![r] = DoneRun]
    /\ UNCHANGED <<kind, freeIds, scenes, keyframes, analyses>>
    /\ UNCHANGED reqVars
    /\ UNCHANGED streamVars
    /\ UNCHANGED extVars

ExceptHandler(r) ==
    /\ runs[r].pc = "except"
    /\ LET m == runs[r].media
       IN  /\ log' = [log EXCEPT ![m] = ExceptLog(log[m], runs[r], r)]
           /\ status' = [status EXCEPT ![m] = ExceptStatus]
    /\ runs' = [runs EXCEPT ![r] = DoneRun]
    /\ UNCHANGED <<kind, freeIds, scenes, transcripts, keyframes, analyses>>
    /\ UNCHANGED reqVars
    /\ UNCHANGED streamVars
    /\ UNCHANGED extVars

\* ------------------------------------------------------------ retry and submit
\* A variant: retry is accepted whatever the status is.
RetryAccepts_Always(m) == TRUE

\* Retry is accepted for a failed record only.
RetryAccepts(m) == status[m] = "failed"

\* POST /videos/{id}/retry on the server: status back to pending, run resubmitted.
ServerRetry(m) ==
    IF RetryAccepts(m)
    THEN /\ HasFreeRun
         /\ status' = [status EXCEPT ![m] = "pending"]
         /\ runs' = [runs EXCEPT ![FreeRun] = NewRun(m, "submit")]
         /\ lastError' = "none"
    ELSE /\ lastError' = "InvalidTransition"
         /\ UNCHANGED <<status, runs>>

\* Submit is accepted for a pending record only.
SubmitAccepts(m) == status[m] = "pending"

\* Submit pipeline run: returns at once, the run proceeds asynchronously.
Submit(m) ==
    /\ status[m] # "none"
    /\ IF SubmitAccepts(m)
       THEN /\ HasFreeRun
            /\ runs' = [runs EXCEPT ![FreeRun] = NewRun(m, "submit")]
            /\ lastError' = "none"
       ELSE /\ lastError' = "InvalidTransition"
            /\ UNCHANGED runs
    /\ UNCHANGED <<status, kind, freeIds, scenes, log, transcripts, keyframes, analyses,
                   clientStatus, retryInFlight>>
    /\ UNCHANGED streamVars
    /\ UNCHANGED extVars

\* ------------------------------------------------------------------ dashboard
\* fetchVideos: the dashboard's list is replaced by the server's.
FetchVideos ==
    /\ clientStatus' = status
    /\ clientStatus' # clientStatus
    /\ UNCHANGED pipeVars
    /\ UNCHANGED <<lastError, retryInFlight>>
    /\ UNCHANGED streamVars
    /\ UNCHANGED extVars

\* The retry button is rendered for a failed video only.
RetryButtonShown(m) == clientStatus[m] = "failed"

\* A click on it: handleRetry sends the request.
ClickRetry(m) ==
    /\ RetryButtonShown(m)
    /\ retryInFlight[m] < MaxInFlight
    /\ retryInFlight' = [retryInFlight EXCEPT ![m] = @ + 1]
    /\ UNCHANGED pipeVars
    /\ UNCHANGED <<lastError, clientStatus>>
    /\ UNCHANGED streamVars
    /\ UNCHANGED extVars

\* The request reaches the server and handleRetry sees the answer: on
\* success the video is shown as processing, otherwise an alert is shown.
HandleRetry(m) ==
    /\ retryInFlight[m] > 0
    /\ retryInFlight' = [retryInFlight EXCEPT ![m] = @ - 1]
    /\ ServerRetry(m)
    /\ clientStatus' = IF lastError' = "none"
                       THEN [clientStatus EXCEPT ![m] = "processing"]
                       ELSE clientStatus
    /\ UNCHANGED <<kind, freeIds, scenes, log, transcripts, keyframes, analyses>>
    /\ UNCHANGED streamVars
    /\ UNCHANGED extVars

\* ------------------------------------------------------ log stream and receiver
\* The media item whose log the receiver follows.
Watched == MinOf(Media)

LastSeq(lg) == IF lg = <<>> THEN 0 ELSE lg[Len(lg)].seq

\* poll(mediaId, sinceSeq): all entries with sequence > sinceSeq.
Poll(m, since) ==
    LET After(e) == e.seq > since
    IN  SelectSeq(log[m], After)

Ids(s) == {s[i].seq : i \in DOMAIN s}

\* The k-th smallest number of S: the one with k - 1 smaller ones in S.
KthOf(S, k) == CHOOSE x \in S : Cardinality({y \in S : y < x}) = k - 1

\* The last item of s with id i (Map.set overwrites).
LastWith(s, i) ==
    LET k == CHOOSE j \in DOMAIN s : s[j].seq = i /\ \A h \in DOMAIN s : s[h].seq = i => h <= j
    IN  s[k]

\* The Map's value for id i: data's item if it has one, else prev's.
MapGet(prev, data, i) ==
    IF \E j \in DOMAIN data : data[j].seq = i THEN LastWith(data, i) ELSE LastWith(prev, i)

\* A variant: the list is replaced by the data received (as fetchLogs does).
MergeLogs_Replace(prev, data) == data

\* The SSE handler's state update: a Map of prev by id, every item of data
\* set into it, the values sorted by id.
MergeLogs(prev, data) ==
    [k \in 1..Cardinality(Ids(prev) \cup Ids(data)) |->
        MapGet(prev, data, KthOf(Ids(prev) \cup Ids(data), k))]

Terminal(m) == status[m] \in {"completed", "failed"}

\* stream(mediaId): a subscription starts at the end of the log and gets the
\* entries appended from then on.
Subscribe ==
    /\ sub.state = "closed"
    /\ status[Watched] # "none"
    /\ sub' = [state |-> "open", media |-> Watched,
               start |-> LastSeq(log[Watched]), cursor |-> LastSeq(log[Watched])]
    /\ UNCHANGED pipeVars
    /\ UNCHANGED reqVars
    /\ UNCHANGED <<recv, snapInFlight, snapsLeft>>
    /\ UNCHANGED extVars

\* The stream emits the new entries as one batch and the receiver merges it.
StreamEmit ==
    /\ sub.state = "open"
    /\ LET batch == Poll(sub.media, sub.cursor)
       IN  /\ batch # <<>>
           /\ sub' = [sub EXCEPT !.cursor = LastSeq(batch)]
           /\ recv' = [recv EXCEPT !.view = MergeLogs(recv.view, batch)]
    /\ UNCHANGED pipeVars
    /\ UNCHANGED reqVars
    /\ UNCHANGED <<snapInFlight, snapsLeft>>
    /\ UNCHANGED extVars

\* A variant: the stream ends as soon as the record is terminal.
MayEnd_Early == Terminal(sub.media)

\* The stream may end: the record is terminal and every entry has been emitted.
MayEnd == Terminal(sub.media) /\ Poll(sub.media, sub.cursor) = <<>>

\* The explicit end signal.
StreamEnd ==
    /\ sub.state = "open"
    /\ MayEnd
    /\ sub' = [sub EXCEPT !.state = "ended"]
    /\ UNCHANGED pipeVars
    /\ UNCHANGED reqVars
    /\ UNCHANGED <<recv, snapInFlight, snapsLeft>>
    /\ UNCHANGED extVars

\* Fetch logs (snapshot), from offset 0 or from the last sequence number the
\* receiver has seen: the server answers with the entries it has now.
SnapshotRequest(since) ==
    /\ snapsLeft > 0
    /\ snapInFlight = {}
    /\ status[Watched] # "none"
    /\ since \in {0, LastSeq(recv.view)}
    /\ snapsLeft' = snapsLeft - 1
    /\ snapInFlight' = {[since |-> since, upTo |-> LastSeq(log[Watched]),
                         entries |-> Poll(Watched, since)]}
    /\ UNCHANGED pipeVars
    /\ UNCHANGED reqVars
    /\ UNCHANGED <<sub, recv>>
    /\ UNCHANGED extVars

\* covered: the receiver has been given every entry up to this sequence
\* number by snapshots (a history kept for the checks).
CoveredAfter(c, resp) == IF resp.since <= c /\ resp.upTo > c THEN resp.upTo ELSE c

\* The answer arrives and the receiver merges it.
SnapshotArrive ==
    /\ \E resp \in snapInFlight :
          /\ recv' = [view |-> MergeLogs(recv.view, resp.entries),
                      covered |-> CoveredAfter(recv.covered, resp)]
          /\ snapInFlight' = snapInFlight \ {resp}
    /\ UNCHANGED pipeVars
    /\ UNCHANGED reqVars
    /\ UNCHANGED <<sub, snapsLeft>>
    /\ UNCHANGED extVars

\* ------------------------------------------------ ProgressTerminal (SSE client)
\* useState(2000): the first value of retryDelay.
BaseDelay == 2000

\* Math.min(..., 30000): the largest reconnect delay.
MaxDelay == 30000

Min2(a, b) == IF a < b THEN a ELSE b

\* onerror: next = Math.min(retryDelay * 2, 30000), d being the retryDelay
\* the effect's closure holds.
NextDelay(d) == Min2(d * 2, MaxDelay)

\* The sequence numbers the request of new EventSource carries: the URL names
\* the video only, and startSSE sends no snapshot request, so there is none.
StreamSince(view) == {}

\* stream(mediaId): a subscription that names a sequence number gets the
\* entries after it, any other the entries appended from then on.
StreamStart(since) ==
    IF since = {} THEN LastSeq(log[Watched]) ELSE CHOOSE c \in since : TRUE

NoEs == [state |-> "none", since |-> {}, cursor |-> 0, seen |-> 0, reconnect |-> FALSE]

\* es = new EventSource(...): seen is the last sequence number displayed when
\* the request leaves (kept for the checks).
OpenEs(again) ==
    [state |-> "open", since |-> StreamSince(shown),
     cursor |-> StreamStart(StreamSince(shown)),
     seen |-> LastSeq(shown), reconnect |-> again]

\* es.close()
CloseEs(e) == IF e.state = "open" THEN [e EXCEPT !.state = "closed"] ELSE e

\* GET /videos/{id}/logs: every entry of the log.
FetchLogs == Poll(Watched, 0)

\* startSSE: the EventSource is built (ok) and retryDelay set to 2000, or the
\* constructor throws and the catch clause starts polling.
StartSSE(ok, again, e, iv) ==
    IF ok
    THEN /\ es' = OpenEs(again)
         /\ retryDelay' = BaseDelay
         /\ interval' = iv
    ELSE /\ es' = e
         /\ interval' = TRUE
         /\ UNCHANGED retryDelay

\* The effect runs: on mount and when the status prop, which the page takes
\* from its data, has changed. The
\* cleanup of the run before it clears the interval and closes the
\* EventSource; then fetchLogs() and, while processing, startSSE().
TermEffect(ok) ==
    /\ pageStatus # "none"
    /\ termStatus \notin {pageStatus, "unmounted"}
    /\ termStatus' = pageStatus
    /\ capturedDelay' = retryDelay
    /\ fetching' = fetching \cup {FetchLogs}
    /\ IF pageStatus \in {"processing", "uploading"}
       THEN StartSSE(ok, FALSE, CloseEs(es), FALSE)
       ELSE /\ ok
            /\ es' = CloseEs(es)
            /\ interval' = FALSE
            /\ UNCHANGED retryDelay
    /\ waits' = <<>>
    /\ UNCHANGED <<timers, shown, errorsLeft>>
    /\ UNCHANGED pipeVars
    /\ UNCHANGED reqVars
    /\ UNCHANGED streamVars
    /\ UNCHANGED engVars
    /\ UNCHANGED restVars

\* es.onmessage: the batch is merged into the list by id.
TermMessage ==
    /\ es.state = "open"
    /\ LET batch == Poll(Watched, es.cursor)
       IN  /\ batch # <<>>
           /\ es' = [es EXCEPT !.cursor = LastSeq(batch)]
           /\ shown' = MergeLogs(shown, batch)
    /\ waits' = <<>>
    /\ UNCHANGED <<termStatus, retryDelay, capturedDelay, timers, interval, fetching,
                   errorsLeft>>
    /\ UNCHANGED pipeVars
    /\ UNCHANGED reqVars
    /\ UNCHANGED streamVars
    /\ UNCHANGED engVars
    /\ UNCHANGED restVars

\* The "end" listener: es.close().
TermEnd ==
    /\ es.state = "open"
    /\ Terminal(Watched)
    /\ Poll(Watched, es.cursor) = <<>>
    /\ es' = CloseEs(es)
    /\ UNCHANGED <<termStatus, retryDelay, capturedDelay, timers, interval, shown,
                   fetching, waits, errorsLeft>>
    /\ UNCHANGED pipeVars
    /\ UNCHANGED reqVars
    /\ UNCHANGED streamVars
    /\ UNCHANGED engVars
    /\ UNCHANGED restVars

\* es.onerror: close, compute the delay from the closure's retryDelay, set
\* the state and the reconnect timeout.
TermError ==
    /\ es.state = "open"
    /\ errorsLeft > 0
    /\ errorsLeft' = errorsLeft - 1
    /\ es' = CloseEs(es)
    /\ retryDelay' = NextDelay(capturedDelay)
    /\ timers' = Append(timers, NextDelay(capturedDelay))
    /\ waits' = Append(waits, NextDelay(capturedDelay))
    /\ UNCHANGED <<termStatus, capturedDelay, interval, shown, fetching>>
    /\ UNCHANGED pipeVars
    /\ UNCHANGED reqVars
    /\ UNCHANGED streamVars
    /\ UNCHANGED engVars
    /\ UNCHANGED restVars

\* The reconnect timeout fires: startSSE().
TermTimer(ok) ==
    /\ timers # <<>>
    /\ timers' = Tail(timers)
    /\ StartSSE(ok, TRUE, es, interval)
    /\ UNCHANGED <<termStatus, capturedDelay, shown, fetching, waits, errorsLeft>>
    /\ UNCHANGED pipeVars
    /\ UNCHANGED reqVars
    /\ UNCHANGED streamVars
    /\ UNCHANGED engVars
    /\ UNCHANGED restVars

\* The interval set by startPolling fires: fetchLogs(). The answers arrive
\* within the 2 s of the interval, so a tick finds none on its way.
TermPoll ==
    /\ interval
    /\ fetching = {}
    /\ fetching' = fetching \cup {FetchLogs}
    /\ UNCHANGED <<termStatus, es, retryDelay, capturedDelay, timers, interval, shown,
                   waits, errorsLeft>>
    /\ UNCHANGED pipeVars
    /\ UNCHANGED reqVars
    /\ UNCHANGED streamVars
    /\ UNCHANGED engVars
    /\ UNCHANGED restVars

\* The answer to fetchLogs arrives: setLogs(response.data).
TermFetched ==
    /\ \E resp \in fetching :
          /\ shown' = resp
          /\ fetching' = fetching \ {resp}
    /\ UNCHANGED <<termStatus, es, retryDelay, capturedDelay, timers, interval, waits,
                   errorsLeft>>
    /\ UNCHANGED pipeVars
    /\ UNCHANGED reqVars
    /\ UNCHANGED streamVars
    /\ UNCHANGED engVars
    /\ UNCHANGED restVars

\* The component unmounts: the cleanup clears the interval and closes the
\* EventSource.
TermUnmount ==
    /\ termStatus \notin {"none", "unmounted"}
    /\ termStatus' = "unmounted"
    /\ es' = CloseEs(es)
    /\ interval' = FALSE
    /\ UNCHANGED <<retryDelay, capturedDelay, timers, shown, fetching, waits, errorsLeft>>
    /\ UNCHANGED pipeVars
    /\ UNCHANGED reqVars
    /\ UNCHANGED streamVars
    /\ UNCHANGED engVars
    /\ UNCHANGED restVars

\* The component before it is mounted, with n stream errors to come.
TermStart(n) ==
    /\ termStatus = "none"
    /\ es = NoEs
    /\ retryDelay = BaseDelay
    /\ capturedDelay = BaseDelay
    /\ timers = <<>>
    /\ interval = FALSE
    /\ shown = <<>>
    /\ fetching = {}
    /\ waits = <<>>
    /\ errorsLeft = n

TermIdle == TermStart(0)

\* ---------------------------------------------------- keyframe extraction
\* Frame contents, told apart by their grey-level histogram.
Images == {1, 2, 3}

\* The files: every sequence of at most MaxFrames frames.
Videos == UNION {[1..n -> Images] : n \in 0..MaxFrames}

\* threshold: float = 25.0
DefaultThreshold == 25

\* max_frames: int = 10
DefaultMaxFrames == 10

\* Positive thresholds: below, at and above the scores that occur.
Thresholds == {1, DefaultThreshold, 100}

\* Frame rates cap.get(CAP_PROP_FPS) reports: 0 when the container gives none.
FpsValues == {0, 1, 3}

Configs == [threshold : Thresholds, max_frames : 1..MaxKeyframes, fps : FpsValues]

\* prev_frame = None
None == 0

\* cv2.compareHist(hist_curr, hist_prev, HISTCMP_CORREL), in hundredths:
\* 100 for equal histograms, symmetric, lower the more they differ.
Correlation(a, b) ==
    IF a = b THEN 100
    ELSE IF {a, b} = {1, 2} THEN 75
    ELSE IF {a, b} = {1, 3} THEN 0
    ELSE -50

\* scene_change = (1 - correlation) * 100
SceneChange(prev, gray) == 100 - Correlation(prev, gray)

\* A variant: the first frame is compared with an empty picture.
HasBaseline_Always(prev) == TRUE

\* if prev_frame is not None
HasBaseline(prev) == prev # None

\* A variant: the count of keyframes is not looked at.
IsKeyframe_NoLimit(scene_change, threshold, keyframe_count, max_frames) ==
    scene_change > threshold

\* A variant: a score equal to the threshold counts as a scene change.
IsKeyframe_OrEqual(scene_change, threshold, keyframe_count, max_frames) ==
    scene_change >= threshold /\ keyframe_count < max_frames

\* if scene_change > threshold and keyframe_count < max_frames
IsKeyframe(scene_change, threshold, keyframe_count, max_frames) ==
    scene_change > threshold /\ keyframe_count < max_frames

\* round(frame_count / self.fps, 2), in hundredths of a second.
Timestamp(frame_count, fps) == (200 * frame_count + fps) \div (2 * fps)

\* The locals of extract_keyframes_scene_detection at pc.
ScanAt(pc) ==
    [pc |-> pc, keyframes |-> <<>>, prev_frame |-> None, frame_count |-> 0,
     keyframe_count |-> 0]

\* VideoProcessor(video_path): total_frames / fps raises for fps = 0.
EngineInit ==
    /\ scan.pc = "idle"
    /\ scan' = ScanAt(IF config.fps = 0 THEN "raised" ELSE "ready")
    /\ UNCHANGED <<video, config>>
    /\ UNCHANGED pipeVars
    /\ UNCHANGED reqVars
    /\ UNCHANGED streamVars
    /\ UNCHANGED termVars
    /\ UNCHANGED restVars

\* The call: the locals are set and the capture is rewound.
EngineCall ==
    /\ scan.pc = "ready"
    /\ scan' = ScanAt("loop")
    /\ UNCHANGED <<video, config>>
    /\ UNCHANGED pipeVars
    /\ UNCHANGED reqVars
    /\ UNCHANGED streamVars
    /\ UNCHANGED termVars
    /\ UNCHANGED restVars

\* A variant: the frame is numbered after frame_count has been advanced.
KeyframesAfter_Late(s, gray) ==
    IF /\ HasBaseline(s.prev_frame)
       /\ IsKeyframe(SceneChange(s.prev_frame, gray), config.threshold,
                     s.keyframe_count, config.max_frames)
    THEN Append(s.keyframes,
                [frame_number |-> s.frame_count + 1,
                 timestamp |-> Timestamp(s.frame_count + 1, config.fps),
                 scene_change_score |-> SceneChange(s.prev_frame, gray),
                 image |-> gray])
    ELSE s.keyframes

\* The keyframes list after the frame read: appended to when the frame has
\* a baseline and is a keyframe.
KeyframesAfter(s, gray) ==
    IF /\ HasBaseline(s.prev_frame)
       /\ IsKeyframe(SceneChange(s.prev_frame, gray), config.threshold,
                     s.keyframe_count, config.max_frames)
    THEN Append(s.keyframes,
                [frame_number |-> s.frame_count,
                 timestamp |-> Timestamp(s.frame_count, config.fps),
                 scene_change_score |-> SceneChange(s.prev_frame, gray),
                 image |-> gray])
    ELSE s.keyframes

\* One turn of the loop: cap.read() returns a frame.
EngineRead ==
    /\ scan.pc = "loop"
    /\ scan.frame_count < Len(video)
    /\ LET gray == video[scan.frame_count + 1]
           kfs  == KeyframesAfter(scan, gray)
       IN  scan' = [scan EXCEPT !.keyframes = kfs,
                                !.keyframe_count = Len(kfs),
                                !.prev_frame = gray,
                                !.frame_count = scan.frame_count + 1]
    /\ UNCHANGED <<video, config>>
    /\ UNCHANGED pipeVars
    /\ UNCHANGED reqVars
    /\ UNCHANGED streamVars
    /\ UNCHANGED termVars
    /\ UNCHANGED restVars

\* cap.read() returns no frame: release and return keyframes.
EngineReturn ==
    /\ scan.pc = "loop"
    /\ scan.frame_count = Len(video)
    /\ scan' = [scan EXCEPT !.pc = "returned"]
    /\ UNCHANGED <<video, config>>
    /\ UNCHANGED pipeVars
    /\ UNCHANGED reqVars
    /\ UNCHANGED streamVars
    /\ UNCHANGED termVars
    /\ UNCHANGED restVars

\* min_interval_seconds, as the README gives its default.
MinIntervalSeconds == 2

\* The perceptual hash of a frame, as bits: frames of one content have one hash.
PHash(image) ==
    IF image = 1 THEN <<0, 0, 0>>
    ELSE IF image = 2 THEN <<0, 0, 1>>
    ELSE <<1, 1, 1>>

\* The number of bits two hashes differ in.
Hamming(h, g) == Cardinality({i \in DOMAIN h : h[i] # g[i]})

\* The dedup threshold: the smallest that rejects anything, equal hashes.
DedupThreshold == 1

\* The frames whose scene_change exceeds the threshold, by frame_number.
Candidates ==
    {i \in 1..(Len(video) - 1) : SceneChange(video[i], video[i + 1]) > config.threshold}

\* The scenario's file: 118 seconds, the second scene from second 60 on.
ScenarioSeconds == 118

ScenarioCut == 60

\* Frame rates of the scenario's file.
ScenarioFps == {1, 3}

\* The file of the scenario at frame rate fps: scene a, then scene b.
ScenarioVideo(a, b, fps) ==
    [i \in 1..(ScenarioSeconds * fps) |-> IF i <= ScenarioCut * fps THEN a ELSE b]

EngineIdle ==
    /\ video = <<>>
    /\ config = [threshold |-> DefaultThreshold, max_frames |-> 1, fps |-> 1]
    /\ scan = ScanAt("idle")

\* ----------------------------------- VideoDetailPage and polling ProgressTerminal
\* Everything but the page's and the polling terminal's state.
exceptPage == <<pipeVars, reqVars, streamVars, termVars, engVars, staticVars, viewVars>>

\* fetchData: the page's effect depends on the id only, so it asks for the
\* video once; the answer's status is the status prop of ProgressTerminal.
PageFetch ==
    /\ pageStatus = "none"
    /\ status[Watched] # "none"
    /\ pageStatus' = status[Watched]
    /\ UNCHANGED <<pollStatus, pollInterval, pollShown, pollFetching>>
    /\ UNCHANGED exceptPage

\* if (status === 'processing' || status === 'uploading')
PollsWhile(st) == st \in {"processing", "uploading"}

\* The effect runs: on mount and when the status prop has changed. The
\* cleanup of the run before it clears the interval; then fetchLogs() and,
\* while processing, setInterval(fetchLogs, 2000).
PollEffect ==
    /\ pageStatus # "none"
    /\ pollStatus \notin {pageStatus, "unmounted"}
    /\ pollStatus' = pageStatus
    /\ pollFetching' = pollFetching \cup {FetchLogs}
    /\ pollInterval' = PollsWhile(pageStatus)
    /\ UNCHANGED <<pageStatus, pollShown>>
    /\ UNCHANGED exceptPage

\* The interval fires: fetchLogs(). The answers arrive within the 2 s of the
\* interval, so a tick finds none on its way.
PollTick ==
    /\ pollInterval
    /\ pollFetching = {}
    /\ pollFetching' = {FetchLogs}
    /\ UNCHANGED <<pageStatus, pollStatus, pollInterval, pollShown>>
    /\ UNCHANGED exceptPage

\* The answer to fetchLogs arrives: setLogs(response.data).
PollFetched ==
    /\ \E resp \in pollFetching :
          /\ pollShown' = resp
          /\ pollFetching' = pollFetching \ {resp}
    /\ UNCHANGED <<pageStatus, pollStatus, pollInterval>>
    /\ UNCHANGED exceptPage

\* The user leaves the page: the cleanup clears the interval.
PollUnmount ==
    /\ pollStatus \notin {"none", "unmounted"}
    /\ pollStatus' = "unmounted"
    /\ pollInterval' = FALSE
    /\ UNCHANGED <<pageStatus, pollShown, pollFetching>>
    /\ UNCHANGED exceptPage

\* The page is not open.
PageIdle ==
    /\ pageStatus = "none"
    /\ pollStatus = "none"
    /\ pollInterval = FALSE
    /\ pollShown = <<>>
    /\ pollFetching = {}

\* ------------------------------------------------ static client: status polling
\* Everything but the static client's polling state.
exceptStatic == <<pipeVars, reqVars, streamVars, termVars, engVars, pageVars, viewVars>>

\* clearInterval(h): the timer with handle h, if live, is no more.
ClearInterval(live, h) == {t \in live : t.handle # h}

\* setInterval(...) for a poll of media m set by module by.
NewTimer(by, m) == [handle |-> nextHandle, by |-> by, media |-> m]

\* Videos.startPolling(m): the interval AppState.pollingInterval names is
\* cleared, a new one is set and its handle stored.
VideosStartPolling(m) ==
    /\ liveTimers' = ClearInterval(liveTimers, pollingInterval) \cup {NewTimer("videos", m)}
    /\ pollingInterval' = nextHandle
    /\ nextHandle' = nextHandle + 1

\* Videos.showVideoDetail(m) up to its await: currentVideoId is set and the
\* request sent.
ShowCall(m) ==
    /\ currentVideoId' = m
    /\ detailShown' = 0
    /\ detailRequests' = detailRequests \cup {m}

\* The user opens a video of the library.
ShowVideoDetail(m) ==
    /\ clicksLeft > 0
    /\ status[m] # "none"
    /\ clicksLeft' = clicksLeft - 1
    /\ ShowCall(m)
    /\ UNCHANGED <<pollingInterval, liveTimers, nextHandle, pollRequests, navTimers, uploaded, uploadBusy>>
    /\ UNCHANGED exceptStatic

\* Videos.renderVideoDetail(data), data being the server's answer for m: the
\* view renders m, and a poll is started when m is processing.
RenderVideoDetail(m) ==
    /\ detailShown' = m
    /\ IF status[m] = "processing"
       THEN VideosStartPolling(m)
       ELSE UNCHANGED <<pollingInterval, liveTimers, nextHandle>>

\* The answer to showVideoDetail's request arrives.
DetailArrives(m) ==
    /\ m \in detailRequests
    /\ status[m] = "processing" => nextHandle <= MaxTimers
    /\ detailRequests' = detailRequests \ {m}
    /\ RenderVideoDetail(m)
    /\ UNCHANGED <<currentVideoId, pollRequests, navTimers, uploaded, uploadBusy, clicksLeft>>
    /\ UNCHANGED exceptStatic

\* Upload.startAnalysis after the upload is answered with the id m:
\* currentVideoId is set, the processing container replaces the upload form
\* and startProcessingPolling(m) sets its interval.
UploadAnswered(m) ==
    /\ clicksLeft > 0
    /\ status[m] # "none"
    /\ m \notin uploaded
    /\ ~uploadBusy
    /\ uploadBusy' = TRUE
    /\ nextHandle <= MaxTimers
    /\ clicksLeft' = clicksLeft - 1
    /\ uploaded' = uploaded \cup {m}
    /\ currentVideoId' = m
    /\ liveTimers' = liveTimers \cup {NewTimer("upload", m)}
    /\ pollingInterval' = nextHandle
    /\ nextHandle' = nextHandle + 1
    /\ UNCHANGED <<detailRequests, pollRequests, navTimers, detailShown>>
    /\ UNCHANGED exceptStatic

\* An interval fires. The upload poll that has run for 30 minutes clears
\* AppState.pollingInterval and returns; any other tick asks for the media
\* (the answer to the tick before it has arrived by then).
Tick(t, late) ==
    /\ t \in liveTimers
    /\ IF late
       THEN /\ t.by = "upload"
            /\ liveTimers' = ClearInterval(liveTimers, pollingInterval)
            /\ pollingInterval' = 0
            /\ UNCHANGED pollRequests
       ELSE /\ t \notin pollRequests
            /\ pollRequests' = pollRequests \cup {t}
            /\ UNCHANGED <<liveTimers, pollingInterval>>
    /\ UNCHANGED <<currentVideoId, nextHandle, detailRequests, navTimers, detailShown,
                   uploaded, uploadBusy, clicksLeft>>
    /\ UNCHANGED exceptStatic

\* The answer to a tick's request arrives (ok) or the request fails. On a
\* terminal status the interval AppState.pollingInterval names is cleared;
\* the Videos poll then renders the detail view, the upload poll of a
\* completed media sets the timeout that will open the detail view, the
\* upload poll of a failed one resets the upload view.
PollAnswer(t, ok) ==
    /\ t \in pollRequests
    /\ pollRequests' = pollRequests \ {t}
    /\ IF ok /\ Terminal(t.media)
       THEN /\ liveTimers' = ClearInterval(liveTimers, pollingInterval)
            /\ pollingInterval' = 0
            /\ IF t.by = "videos"
               THEN /\ detailShown' = t.media
                    /\ UNCHANGED <<navTimers, uploadBusy>>
               ELSE /\ navTimers' = IF status[t.media] = "completed"
                                     THEN navTimers \cup {t.media} ELSE navTimers
                    /\ uploadBusy' = (uploadBusy /\ status[t.media] = "completed")
                    /\ UNCHANGED detailShown
       ELSE UNCHANGED <<liveTimers, pollingInterval, detailShown, navTimers, uploadBusy>>
    /\ UNCHANGED <<currentVideoId, nextHandle, detailRequests, uploaded, clicksLeft>>
    /\ UNCHANGED exceptStatic

\* The timeout set by the upload poll fires: Videos.showVideoDetail(m).
NavFires(m) ==
    /\ m \in navTimers
    /\ navTimers' = navTimers \ {m}
    /\ ShowCall(m)
    /\ UNCHANGED <<pollingInterval, liveTimers, nextHandle, pollRequests, uploaded,
                   uploadBusy, clicksLeft>>
    /\ UNCHANGED exceptStatic

\* The static client after its scripts have loaded, with n user actions to come.
StaticStart(n) ==
    /\ currentVideoId = 0
    /\ pollingInterval = 0
    /\ liveTimers = {}
    /\ nextHandle = 1
    /\ detailRequests = {}
    /\ pollRequests = {}
    /\ navTimers = {}
    /\ detailShown = 0
    /\ uploaded = {}
    /\ uploadBusy = FALSE
    /\ clicksLeft = n

StaticIdle == StaticStart(0)

\* ------------------------------------------------ static client: the upload view
\* Everything but the upload view's state.
exceptUpload == <<pipeVars, reqVars, streamVars, termVars, engVars, pageVars, staticVars,
                  settingsVars>>

VIDEO_FORMATS == {".mp4", ".mov", ".avi", ".mkv", ".webm"}
AUDIO_FORMATS == {".mp3", ".wav", ".m4a", ".ogg", ".flac", ".aac", ".wma", ".opus"}

\* A file is its name, split at the dots.
NoFile == <<>>
Files == {<<"clip", "mp4">>, <<"CLIP", "MP4">>, <<"talk", "mp3">>, <<"talk", "v2", "wav">>,
          <<"notes", "txt">>, <<"clip", "mp4", "zip">>}

\* String.prototype.toLowerCase on the segments the names above end with.
ToLowerCase(x) == IF x = "MP4" THEN "mp4" ELSE x

\* '.' + file.name.split('.').pop().toLowerCase()
Ext(file) == "." \o ToLowerCase(file[Len(file)])

\* AppState.selectedFile after showFileSelected(file): assigned on entry.
SelectedAfter(file) == file

\* Upload.validateContext(): the start button, if there is one, is enabled
\* when the description is long enough and a file is selected.
Validated(valid, file, zone) ==
    IF zone = NoFile THEN startDisabled ELSE ~valid \/ file = NoFile

\* Upload.showFileSelected(file), from the file input or a drop on the drop
\* zone: a file of no supported format ends the handler after the toast.
ShowFileSelected(file) ==
    /\ ~formHidden
    /\ selectedFile' = SelectedAfter(file)
    /\ IF Ext(file) \in VIDEO_FORMATS \cup AUDIO_FORMATS
       THEN /\ currentMediaType' = IF Ext(file) \in VIDEO_FORMATS THEN "video" ELSE "audio"
            /\ dropZone' = file
            /\ startDisabled' = Validated(contextValid, selectedFile', file)
       ELSE UNCHANGED <<currentMediaType, dropZone, startDisabled>>
    /\ UNCHANGED <<contextValid, sending, formHidden, uploads>>
    /\ UNCHANGED exceptUpload

\* Upload.resetFileSelection(), by the button the drop zone shows with a file.
ResetFileSelection ==
    /\ ~formHidden
    /\ dropZone # NoFile
    /\ selectedFile' = NoFile
    /\ dropZone' = NoFile
    /\ UNCHANGED <<currentMediaType, contextValid, startDisabled, sending, formHidden, uploads>>
    /\ UNCHANGED exceptUpload

\* MediaType.setMediaType(type): a selection of the other type is reset.
SetMediaType(type) ==
    /\ ~formHidden
    /\ IF selectedFile # NoFile /\ currentMediaType # type
       THEN selectedFile' = NoFile /\ dropZone' = NoFile
       ELSE UNCHANGED <<selectedFile, dropZone>>
    /\ currentMediaType' = type
    /\ UNCHANGED <<contextValid, startDisabled, sending, formHidden, uploads>>
    /\ UNCHANGED exceptUpload

\* The user edits the description: validateContext().
EditContext(valid) ==
    /\ ~formHidden
    /\ contextValid' = valid
    /\ startDisabled' = Validated(valid, selectedFile, dropZone)
    /\ UNCHANGED <<selectedFile, currentMediaType, dropZone, sending, formHidden, uploads>>
    /\ UNCHANGED exceptUpload

NoUpload == [file |-> NoFile, type |-> "none"]

\* Upload.startAnalysis() up to its await, by a click on the start button:
\* the selected file is sent as the current media type.
StartAnalysis ==
    /\ ~formHidden
    /\ dropZone # NoFile
    /\ ~startDisabled
    /\ selectedFile # NoFile
    /\ contextValid
    /\ Cardinality(uploads) < MaxUploads
    /\ startDisabled' = TRUE
    /\ sending' = [file |-> selectedFile, type |-> currentMediaType]
    /\ uploads' = uploads \cup {sending'}
    /\ UNCHANGED <<selectedFile, currentMediaType, dropZone, contextValid, formHidden>>
    /\ UNCHANGED exceptUpload

\* The upload is answered: the form gives way to the processing container,
\* or the request has failed and the start button is enabled again.
UploadResult(ok) ==
    /\ sending # NoUpload
    /\ sending' = NoUpload
    /\ IF ok
       THEN formHidden' = TRUE /\ UNCHANGED startDisabled
       ELSE startDisabled' = FALSE /\ UNCHANGED formHidden
    /\ UNCHANGED <<selectedFile, currentMediaType, dropZone, contextValid, uploads>>
    /\ UNCHANGED exceptUpload

\* Upload.resetUploadView(), when the upload poll sees the media failed.
ResetUploadView ==
    /\ formHidden
    /\ formHidden' = FALSE
    /\ selectedFile' = NoFile
    /\ dropZone' = NoFile
    /\ contextValid' = FALSE
    /\ UNCHANGED <<currentMediaType, startDisabled, sending, uploads>>
    /\ UNCHANGED exceptUpload

\* The upload view after Upload.init().
UploadIdle ==
    /\ selectedFile = NoFile
    /\ currentMediaType = "video"
    /\ dropZone = NoFile
    /\ contextValid = FALSE
    /\ startDisabled = TRUE
    /\ sending = NoUpload
    /\ formHidden = FALSE
    /\ uploads = {}

\* ------------------------------------------------------------- settings module
\* Everything but the settings module's state.
exceptSettings == <<pipeVars, reqVars, streamVars, termVars, engVars, pageVars, staticVars,
                    uploadVars>>

\* Settings.renderSavedConfigs() with n saved configurations: an empty list
\* renders the empty state and returns; any other list renders its cards
\* and adds a click listener to the container.
ListListenersAfter(n) == IF n = 0 THEN listListeners ELSE listListeners + 1

\* The user opens the settings view: Navigation calls Settings.reload(),
\* which calls init(). Unless a load throws, setupEventListeners() adds its
\* listeners to document and the list of n saved configurations is rendered.
SettingsReload(ok, n) ==
    /\ opensLeft > 0
    /\ opensLeft' = opensLeft - 1
    /\ IF ok
       THEN /\ docListeners' = docListeners + 1
            /\ configs' = n
            /\ listListeners' = ListListenersAfter(n)
       ELSE UNCHANGED <<docListeners, configs, listListeners>>
    /\ UNCHANGED <<lastClick, handled, pending>>
    /\ UNCHANGED exceptSettings

\* One click on a preset's apply button: every click listener of document
\* that looks for .preset-apply-btn calls applyPreset(presetId).
ClickApply ==
    /\ docListeners > 0
    /\ pending = 0
    /\ lastClick' = "apply"
    /\ handled' = docListeners
    /\ pending' = docListeners
    /\ UNCHANGED <<docListeners, listListeners, configs, opensLeft>>
    /\ UNCHANGED exceptSettings

\* One click on the activate or the delete button of a saved configuration:
\* every click listener of the container calls activateConfig or deleteConfig.
ClickSaved(button) ==
    /\ configs > 0
    /\ pending = 0
    /\ lastClick' = button
    /\ handled' = listListeners
    /\ pending' = listListeners
    /\ UNCHANGED <<docListeners, listListeners, configs, opensLeft>>
    /\ UNCHANGED exceptSettings

\* The server answers one call of applyPreset, activateConfig or
\* deleteConfig: after a success the list, now of n configurations, is loaded
\* and rendered again; a failure shows the error.
HandlerDone(ok, n) ==
    /\ pending > 0
    /\ pending' = pending - 1
    /\ IF ok
       THEN /\ ListListenersAfter(n) <= MaxListeners
            /\ configs' = n
            /\ listListeners' = ListListenersAfter(n)
       ELSE UNCHANGED <<configs, listListeners>>
    /\ UNCHANGED <<docListeners, lastClick, handled, opensLeft>>
    /\ UNCHANGED exceptSettings

\* The settings module with n openings of its view to come.
SettingsStart(n) ==
    /\ docListeners = 0
    /\ listListeners = 0
    /\ configs = 0
    /\ lastClick = "none"
    /\ handled = 0
    /\ pending = 0
    /\ opensLeft = n

SettingsIdle == SettingsStart(0)

ViewIdle == UploadIdle /\ SettingsIdle

\* The clients before they are used.
RestIdle == PageIdle /\ StaticIdle /\ ViewIdle

\* ------------------------------------------------------------- specifications
NoSub == [state |-> "closed", media |-> 0, start |-> 0, cursor |-> 0]

InitCommon ==
    /\ status = [m \in Media |-> "none"]
    /\ scenes = [m \in Media |-> 0]
    /\ kind = [m \in Media |-> "video"]
    /\ runs = [r \in RunIds |-> NoRun]
    /\ log = [m \in Media |-> <<>>]
    /\ transcripts = [m \in Media |-> <<>>]
    /\ keyframes = [m \in Media |-> <<>>]
    /\ analyses = [m \in Media |-> <<>>]
    /\ lastError = "none"
    /\ clientStatus = [m \in Media |-> "none"]
    /\ retryInFlight = [m \in Media |-> 0]
    /\ sub = NoSub
    /\ recv = [view |-> <<>>, covered |-> 0]
    /\ snapInFlight = {}

\* One media item, its runs, and the dashboard's retry and submit requests.
Init ==
    /\ InitCommon
    /\ freeIds = {1}
    /\ snapsLeft = 0
    /\ TermIdle
    /\ EngineIdle
    /\ RestIdle

RunStep(r) ==
    \/ StartRun(r)
    \/ StageReturns(r)
    \/ \E j \in 0..NumKeyframes : StageRaises(r, j)
    \/ \E ok \in BOOLEAN : DescribeFrame(r, ok)
    \/ EndDescribe(r)
    \/ \E o \in SynthOutcomes : Synthesize(r, o)
    \/ FinishRun(r)
    \/ ExceptHandler(r)

Pipeline ==
    \/ \E k \in Kinds, n \in 0..NumKeyframes : Upload(k, n)
    \/ \E r \in RunIds : RunStep(r)

Dashboard ==
    \/ FetchVideos
    \/ \E m \in Media : ClickRetry(m)
    \/ \E m \in Media : HandleRetry(m)

Next ==
    \/ Pipeline
    \/ Dashboard
    \/ \E m \in Media : Submit(m)

\* The worker pool runs every scheduled task, and every stage returns or raises.
Fairness == \A r \in RunIds : WF_vars(RunStep(r))

Spec == Init /\ [][Next]_vars

\* The same, with the worker pool's fairness.
FairSpec == Init /\ [][Next]_vars /\ Fairness

\* One media item, one log stream subscription and one receiver.
InitStream ==
    /\ InitCommon
    /\ freeIds = {Watched}
    /\ snapsLeft = MaxSnapshots
    /\ TermIdle
    /\ EngineIdle
    /\ RestIdle

Receiver ==
    \/ Subscribe
    \/ StreamEmit
    \/ StreamEnd
    \/ \E since \in 0..(NumKeyframes + 12) : SnapshotRequest(since)
    \/ SnapshotArrive

NextStream ==
    \/ Pipeline
    \/ Receiver

\* The stream service keeps emitting what it has, and ends when it may.
StreamFairness ==
    /\ WF_vars(StreamEmit)
    /\ WF_vars(StreamEnd)

\* Two media items side by side.
InitPair ==
    /\ InitCommon
    /\ freeIds = Media
    /\ snapsLeft = 0
    /\ TermIdle
    /\ EngineIdle
    /\ RestIdle

SpecPair == InitPair /\ [][Pipeline]_vars

\* The same, with the worker pool's fairness.
FairPair == InitPair /\ [][Pipeline]_vars /\ Fairness

SpecStream == InitStream /\ [][NextStream]_vars /\ StreamFairness

\* One media item and the ProgressTerminal of its detail page.
InitTerminal ==
    /\ InitCommon
    /\ freeIds = {Watched}
    /\ snapsLeft = 0
    /\ TermStart(MaxStreamErrors)
    /\ EngineIdle
    /\ RestIdle

TerminalStep ==
    \/ PageFetch
    \/ \E ok \in BOOLEAN : TermEffect(ok)
    \/ TermMessage
    \/ TermEnd
    \/ TermError
    \/ \E ok \in BOOLEAN : TermTimer(ok)
    \/ TermPoll
    \/ TermFetched
    \/ TermUnmount

NextTerminal ==
    \/ Pipeline
    \/ TerminalStep

SpecTerminal == InitTerminal /\ [][NextTerminal]_vars

\* One file, one configuration, one extraction.
InitEngine ==
    /\ InitCommon
    /\ freeIds = {}
    /\ snapsLeft = 0
    /\ TermIdle
    /\ video \in Videos
    /\ config \in Configs
    /\ scan = ScanAt("idle")
    /\ RestIdle

NextEngine ==
    \/ EngineInit
    \/ EngineCall
    \/ EngineRead
    \/ EngineReturn

SpecEngine == InitEngine /\ [][NextEngine]_vars

\* The scenario: two scenes whose histograms differ by more than the default
\* threshold, the default configuration.
InitScenario ==
    /\ InitCommon
    /\ freeIds = {}
    /\ snapsLeft = 0
    /\ TermIdle
    /\ \E a \in Images, b \in Images, fps \in ScenarioFps :
          /\ SceneChange(a, b) > DefaultThreshold
          /\ video = ScenarioVideo(a, b, fps)
          /\ config = [threshold |-> DefaultThreshold,
                       max_frames |-> DefaultMaxFrames, fps |-> fps]
    /\ scan = ScanAt("idle")
    /\ RestIdle

SpecScenario == InitScenario /\ [][NextEngine]_vars

\* One media item and the detail page with the polling ProgressTerminal.
InitPolling ==
    /\ InitCommon
    /\ freeIds = {Watched}
    /\ snapsLeft = 0
    /\ TermIdle
    /\ EngineIdle
    /\ RestIdle

PollingStep ==
    \/ PageFetch
    \/ PollEffect
    \/ PollTick
    \/ PollFetched
    \/ PollUnmount

NextPolling ==
    \/ Pipeline
    \/ PollingStep

\* React runs the effect, the browser fires the interval and the answers
\* arrive; nothing makes the user open or leave the page.
PollingFairness ==
    /\ WF_vars(PollEffect)
    /\ WF_vars(PollTick)
    /\ WF_vars(PollFetched)

SpecPolling == InitPolling /\ [][NextPolling]_vars /\ Fairness /\ PollingFairness

\* Two media items and the static client.
InitStatic ==
    /\ InitCommon
    /\ freeIds = Media
    /\ snapsLeft = 0
    /\ TermIdle
    /\ EngineIdle
    /\ PageIdle
    /\ StaticStart(MaxClicks)
    /\ ViewIdle

StaticStep ==
    \/ \E m \in Media : ShowVideoDetail(m)
    \/ \E m \in Media : DetailArrives(m)
    \/ \E m \in Media : UploadAnswered(m)
    \/ \E t \in liveTimers, late \in BOOLEAN : Tick(t, late)
    \/ \E t \in pollRequests, ok \in BOOLEAN : PollAnswer(t, ok)
    \/ \E m \in Media : NavFires(m)

NextStatic ==
    \/ Pipeline
    \/ StaticStep

SpecStatic == InitStatic /\ [][NextStatic]_vars

\* The upload view of the static client, used by one user.
InitUpload ==
    /\ InitCommon
    /\ freeIds = {}
    /\ snapsLeft = 0
    /\ TermIdle
    /\ EngineIdle
    /\ PageIdle
    /\ StaticIdle
    /\ UploadIdle
    /\ SettingsIdle

NextUpload ==
    \/ \E file \in Files : ShowFileSelected(file)
    \/ ResetFileSelection
    \/ \E type \in {"video", "audio"} : SetMediaType(type)
    \/ \E valid \in BOOLEAN : EditContext(valid)
    \/ StartAnalysis
    \/ \E ok \in BOOLEAN : UploadResult(ok)
    \/ ResetUploadView

SpecUpload == InitUpload /\ [][NextUpload]_vars

\* The settings view of the static client, used by one user.
InitSettings ==
    /\ InitCommon
    /\ freeIds = {}
    /\ snapsLeft = 0
    /\ TermIdle
    /\ EngineIdle
    /\ PageIdle
    /\ StaticIdle
    /\ UploadIdle
    /\ SettingsStart(MaxOpens)

NextSettings ==
    \/ \E ok \in BOOLEAN, n \in 0..MaxConfigs : SettingsReload(ok, n)
    \/ ClickApply
    \/ \E button \in {"activate", "delete"} : ClickSaved(button)
    \/ \E ok \in BOOLEAN, n \in 0..MaxConfigs : HandlerDone(ok, n)

SpecSettings == InitSettings /\ [][NextSettings]_vars

\* ===================================================================== claims
MediaOf(r) == runs[r].media

\* The runs of media id m that have been picked up and have not ended.
ActiveRuns(m) == {r \in RunIds : Live(r) /\ runs[r].pc # "queued" /\ MediaOf(r) = m}

Artifacts == <<transcripts, keyframes, analyses>>

\* ------------------------------------------------------------------------ C1
LegalTransitions ==
    {<<"pending", "processing">>, <<"processing", "completed">>,
     <<"processing", "failed">>, <<"failed", "pending">>}

\* This step handles a retry request for m.
RetryHandled(m) == retryInFlight'[m] < retryInFlight[m]

\* This step starts or rejects the queued task r.
RunPickedUp(r) == runs[r].pc = "queued" /\ runs'[r] # runs[r]

\* This step ends a request or a run start with InvalidTransition.
Rejected ==
    /\ lastError' = "InvalidTransition"
    /\ \/ lastError = "none"
       \/ \E m \in Media : RetryHandled(m)
       \/ \E r \in RunIds : RunPickedUp(r)

\* What C1 says about illegal operations: they fail with InvalidTransition
\* and leave status, artifacts and log as they were.
IllegalOperationsRejected ==
    /\ Rejected => UNCHANGED <<status, log, transcripts, keyframes, analyses>>
    /\ \A m \in Media :
          /\ (status[m] = "failed" /\ status'[m] = "pending") => RetryHandled(m)
          /\ (RetryHandled(m) /\ status[m] # "failed") => lastError' = "InvalidTransition"
    /\ \A r \in RunIds :
          (RunPickedUp(r) /\ runs[r].origin = "submit" /\ status[MediaOf(r)] # "pending")
              => (lastError' = "InvalidTransition" /\ runs'[r] = DoneRun)

C2_OneActiveRun ==
    /\ [](\A m \in Media : Cardinality(ActiveRuns(m)) <= 1)
    /\ [][\A r \in RunIds :
            /\ (RunPickedUp(r) /\ ActiveRuns(MediaOf(r)) # {})
                  => /\ runs'[r] = DoneRun
                     /\ lastError' = "InvalidTransition"
                     /\ UNCHANGED <<status, log, transcripts, keyframes, analyses>>
            /\ (runs[r] = NoRun /\ runs'[r] # NoRun)
                  => status[runs'[r].media] # "processing"]_vars

\* A run is executing a stage and a later task for the same media id has
\* been rejected.
C2_Witness ==
    \E r, q \in RunIds :
        /\ InStage(r)
        /\ r < q
        /\ runs[q] = DoneRun
        /\ lastError = "InvalidTransition"

\* ------------------------------------------------------------------------ C3
\* The ERROR entries run r has logged for a stage that raised.
StageErrors(m, r) ==
    {i \in DOMAIN log[m] :
        /\ log[m][i].level = "ERROR"
        /\ log[m][i].run = r
        /\ log[m][i].stage # "describe_frames"}

FrameErrors(m, r) ==
    {i \in DOMAIN log[m] :
        /\ log[m][i].level = "ERROR"
        /\ log[m][i].run = r
        /\ log[m][i].stage = "describe_frames"}

Warnings(m, r) ==
    {i \in DOMAIN log[m] : log[m][i].level = "WARNING" /\ log[m][i].run = r}

\* C4: after a capability failure in any stage, the description of a single
\* keyframe and an unusable synthesis answer included, the run does not go
\* on: a run that is at synthesize or at the final commit has logged no
\* keyframe error and no warning.
C4_EveryFailureTerminal ==
    \A r \in RunIds :
        runs[r].pc \in {"synthesize", "finish"} =>
            /\ FrameErrors(MediaOf(r), r) = {}
            /\ Warnings(MediaOf(r), r) = {}

\* A run whose keyframe could not be described has completed the record.
C4_Witness ==
    \E r \in RunIds :
        /\ runs[r].pc = "finish"
        /\ status[MediaOf(r)] = "completed"
        /\ FrameErrors(MediaOf(r), r) # {}
        /\ analyses[MediaOf(r)] # <<>>

\* ------------------------------------------------------------------------ C5
IsPrefix(p, q) == Len(p) <= Len(q) /\ \A i \in 1..Len(p) : p[i] = q[i]

\* C5: the stages a run has started are a prefix of the sequence of its
\* media kind, the stage it is executing is the last of them, and a run that
\* reaches the final commit has started every stage, once and in order; a
\* run leaves transcribe for the next stage only with the transcript saved;
\* and no two runs of one media id are executing at the same time.
C5_StageOrder ==
    /\ [](\A r \in RunIds :
            (Live(r) /\ runs[r].pc # "queued") =>
                LET h == runs[r].hist
                IN  /\ h # <<>>
                    /\ IsPrefix(h, StageSeq(kind[MediaOf(r)]))
                    /\ InStage(r) => runs[r].pc = h[Len(h)]
                    /\ runs[r].pc = "except" => runs[r].failedAt = h[Len(h)]
                    /\ runs[r].pc = "finish" => h = StageSeq(kind[MediaOf(r)]))
    /\ [](\A m \in Media : Cardinality(ActiveRuns(m)) <= 1)
    /\ [][\A r \in RunIds :
            (InStage(r) /\ runs'[r] # runs[r] /\ runs'[r].pc \in StageNames
                        /\ runs'[r].pc # runs[r].pc) =>
                /\ runs'[r].hist = Append(runs[r].hist, runs'[r].pc)
                /\ runs[r].pc = "transcribe" =>
                      transcripts'[MediaOf(r)] = Append(transcripts[MediaOf(r)], r)]_vars

\* A video run with a keyframe is at the final commit with all five stages
\* started.
C5_Witness ==
    \E r \in RunIds :
        /\ runs[r].pc = "finish"
        /\ kind[MediaOf(r)] = "video"
        /\ runs[r].n > 0
        /\ runs[r].hist = VideoStages


\* ------------------------------------------------------------------------ C6
\* C6: a retry is accepted only for a failed record; it then sets the status
\* to pending and schedules one new task.  A retry of a record in any other
\* status ends with InvalidTransition and changes neither status, tasks, log
\* nor artifacts.  So a completed record keeps its status, and a failed
\* record leaves failed only for pending, in a step that handles a retry.
\* The dashboard sends a retry only for a video it shows as failed.
C6_RetryOnlyFromFailed ==
    [][\A m \in Media :
          /\ (RetryHandled(m) /\ status[m] = "failed") =>
                /\ status'[m] = "pending"
                /\ lastError' = "none"
                /\ \E r \in RunIds :
                      /\ runs[r] = NoRun
                      /\ runs' = [runs EXCEPT ![r] = NewRun(m, "submit")]
          /\ (RetryHandled(m) /\ status[m] # "failed") =>
                /\ lastError' = "InvalidTransition"
                /\ UNCHANGED <<status, runs, log, transcripts, keyframes, analyses>>
          /\ status[m] = "completed" => status'[m] = "completed"
          /\ (status[m] = "failed" /\ status'[m] # "failed") =>
                (RetryHandled(m) /\ status'[m] = "pending")
          /\ retryInFlight'[m] > retryInFlight[m] => clientStatus[m] = "failed"]_vars

\* The first of two retries was accepted, and the second one, handled while
\* the record was pending, was rejected.
C6_Witness ==
    \E m \in Media :
        /\ status[m] = "pending"
        /\ lastError = "InvalidTransition"
        /\ retryInFlight[m] = 0
        /\ clientStatus[m] = "processing"

\* ------------------------------------------------------------------------ C7
\* C7: (the worker pool runs every scheduled task and every stage returns
\* or raises) a record that is processing eventually is completed or failed.
C7_RunsTerminate ==
    \A m \in Media : (status[m] = "processing") ~> Terminal(m)

\* A record whose first run failed was retried and its second run has
\* completed it.
C7_Witness ==
    \E m \in Media : \E r \in RunIds :
        /\ status[m] = "completed"
        /\ StageErrors(m, r) # {}
        /\ Len(analyses[m]) = 1

\* ------------------------------------------------------------------------ C8
\* C8: the sequence ids of a media id's log are strictly increasing in
\* append order, whatever is appended to other media ids' logs in between;
\* an append leaves the entries already there as they are and in place, and
\* the ids it assigns are larger than every id assigned before.
C8_LogSequence ==
    /\ [](\A m \in Media : \A i \in 1..Len(log[m]) :
            \A j \in 1..Len(log[m]) : i < j => log[m][i].seq < log[m][j].seq)
    /\ [][\A m \in Media :
            /\ Len(log'[m]) >= Len(log[m])
            /\ SubSeq(log'[m], 1, Len(log[m])) = log[m]
            /\ \A i \in (Len(log[m]) + 1)..Len(log'[m]) :
                  log'[m][i].seq > LastSeq(log[m])]_vars

\* Two runs are executing and each has appended several entries to the log
\* of its media id.
C8_Witness ==
    \E r, q \in RunIds :
        /\ InStage(r) /\ InStage(q)
        /\ MediaOf(r) # MediaOf(q)
        /\ Len(log[MediaOf(r)]) >= 3
        /\ Len(log[MediaOf(q)]) >= 3

\* ------------------------------------------------------------------------ C9
\* The entry has reached the receiver: in a snapshot, or in a batch.
Delivered(e) ==
    \/ e.seq <= recv.covered
    \/ (sub.state # "closed" /\ sub.start < e.seq /\ e.seq <= sub.cursor)

C10_EndSignal ==
    /\ [](sub.state = "ended" => Terminal(sub.media))
    /\ [][(sub.state = "open" /\ sub'.state = "ended") =>
            /\ Terminal(sub.media)
            /\ \A e \in Range(log[sub.media]) :
                  e.seq > sub.start => e \in Range(recv.view)]_vars
    /\ (sub.state = "open" /\ Terminal(sub.media)) ~> (sub.state = "ended")

\* The stream of a failed record has ended and the receiver holds the ERROR
\* entry of the failure.
C10_Witness ==
    /\ sub.state = "ended"
    /\ status[sub.media] = "failed"
    /\ sub.start < sub.cursor
    /\ \E e \in Range(recv.view) : e.level = "ERROR" /\ e.seq > sub.start


\* ----------------------------------------------------------------------- C11
\* Where an entry stands in the order of its run: the start entry, then the
\* stages in the order of the media kind, then the completion entry.
EntryRank(m, e) ==
    CASE e.stage = "start" -> 0
      [] e.stage = "completed" -> Len(StageSeq(kind[m])) + 1
      [] OTHER -> IndexOf(StageSeq(kind[m]), e.stage)

\* C11: with the runs of two media items interleaved on the worker pool, no
\* run has an entry in both logs, every entry of a log was produced by the
\* one run of that media item, the entries stand in that run's order (start,
\* the stages in sequence, a stage's ERROR entry or the completion entry
\* last), and two records that are processing both become terminal.
C11_TwoMedia ==
    /\ [](\A m \in Media : \A i \in DOMAIN log[m] :
            /\ \A n \in Media \ {m} : \A j \in DOMAIN log[n] :
                  log[n][j].run # log[m][i].run
            /\ Live(log[m][i].run) => MediaOf(log[m][i].run) = m
            /\ \A j \in DOMAIN log[m] :
                  i < j => /\ log[m][i].run = log[m][j].run
                           /\ EntryRank(m, log[m][i]) <= EntryRank(m, log[m][j])
                           /\ i \notin StageErrors(m, log[m][i].run))
    /\ (\A m \in Media : status[m] = "processing") ~> (\A m \in Media : Terminal(m))

\* Both records are terminal, one completed and one failed, each with the
\* entries of its run.
C11_Witness ==
    \E m, n \in Media :
        /\ status[m] = "completed"
        /\ status[n] = "failed"
        /\ Len(log[m]) >= 4
        /\ Len(log[n]) >= 2
        /\ log[m][1].run # log[n][1].run


\* ----------------------------------------------------------------------- C12
\* The Keyframe rows run r has committed.
RowsOf(m, r) == {i \in DOMAIN keyframes[m] : keyframes[m][i].run = r}

\* C12: when a stage raises, what the run committed before is still there:
\* its Transcript if transcribe had returned, and one Keyframe row for each
\* keyframe it described; the raise and the except clause leave every
\* artifact as it is; and no step ever removes or changes a committed
\* Transcript, Keyframe or Analysis row, so they are present after the
\* record has become failed.
C12_ArtifactsRetained ==
    /\ [](\A r \in RunIds :
            runs[r].pc = "except" =>
                LET m == MediaOf(r)
                IN  /\ ("transcribe" \in Range(runs[r].hist) /\ runs[r].failedAt # "transcribe")
                          => r \in Range(transcripts[m])
                    /\ Cardinality(RowsOf(m, r)) = runs[r].descs)
    /\ [](\A m \in Media :
            (/\ status[m] = "failed"
             /\ log[m][Len(log[m])].stage \in {"extract_keyframes", "enrich", "synthesize"})
                => log[m][Len(log[m])].run \in Range(transcripts[m]))
    /\ [][/\ \A m \in Media :
                /\ IsPrefix(transcripts[m], transcripts'[m])
                /\ IsPrefix(keyframes[m], keyframes'[m])
                /\ IsPrefix(analyses[m], analyses'[m])
          /\ \A r \in RunIds :
                (\/ (InStage(r) /\ runs'[r] # runs[r] /\ runs'[r].pc = "except")
                 \/ (runs[r].pc = "except" /\ runs'[r] # runs[r]))
                    => UNCHANGED Artifacts]_vars

\* extract-keyframes raised after the transcript was saved: the record is
\* failed and the transcript is still there.
C12_Witness ==
    \E m \in Media :
        /\ status[m] = "failed"
        /\ log[m] # <<>>
        /\ log[m][Len(log[m])].level = "ERROR"
        /\ log[m][Len(log[m])].stage = "extract_keyframes"
        /\ transcripts[m] = <<log[m][Len(log[m])].run>>


KeyframeColumns(row) == [frame |-> row.idx]

C15_BackoffAndResume ==
    /\ waits # <<>> => waits[1] \in {BaseDelay, 2 * BaseDelay}
    /\ \A k \in 2..Len(waits) : waits[k] = Min2(2 * waits[k - 1], MaxDelay)
    /\ es.state = "open" /\ es.reconnect => es.since = {es.seen}

\* The second failed attempt in a row waits as long as the first, and the
\* reconnect that follows names no sequence number although entries are
\* displayed.
C15_Witness ==
    /\ Len(waits) = 2
    /\ waits[1] = waits[2]
    /\ es.state = "open"
    /\ es.reconnect
    /\ es.seen > 0
    /\ es.since = {}

\* C16: while the media is processing and the terminal's stream is not open
\* (it could not be opened or it met an error), the terminal polls the logs.
C16_PollingFallback ==
    (/\ termStatus = "processing"
     /\ status[Watched] = "processing"
     /\ es.state # "open") => interval

\* After an error the stream is closed, a reconnect is pending and nothing
\* polls, while the log holds an entry the display lacks.
C16_Witness ==
    /\ termStatus = "processing"
    /\ status[Watched] = "processing"
    /\ es.state = "closed"
    /\ timers # <<>>
    /\ ~interval
    /\ fetching = {}
    /\ LastSeq(shown) < LastSeq(log[Watched])

\* C17: whatever the frames and the configuration, the extraction never
\* holds, and so never returns, more than max_frames keyframes.
C17_AtMostMaxFrames == Len(scan.keyframes) <= config.max_frames

\* An extraction has returned max_frames keyframes from a file with more
\* frames above the threshold than that.
C17_Witness ==
    /\ scan.pc = "returned"
    /\ Len(scan.keyframes) = config.max_frames
    /\ Cardinality(Candidates) > config.max_frames

\* C18: every accepted keyframe has a scene_change_score above the threshold,
\* and any two accepted keyframes of one extraction are at least
\* MinIntervalSeconds apart in timestamp.
C18_ScoreAndInterval ==
    /\ \A i \in DOMAIN scan.keyframes :
          scan.keyframes[i].scene_change_score > config.threshold
    /\ \A i \in DOMAIN scan.keyframes : \A j \in DOMAIN scan.keyframes :
          i < j => scan.keyframes[j].timestamp - scan.keyframes[i].timestamp
                      >= MinIntervalSeconds * 100

\* Two frames in a row are accepted keyframes of a returned extraction, one
\* second apart.
C18_Witness ==
    /\ scan.pc = "returned"
    /\ config.fps = 1
    /\ \E i \in DOMAIN scan.keyframes : \E j \in DOMAIN scan.keyframes :
          /\ scan.keyframes[j].frame_number = scan.keyframes[i].frame_number + 1
          /\ scan.keyframes[j].timestamp - scan.keyframes[i].timestamp = 100
          /\ scan.keyframes[i].scene_change_score > config.threshold
          /\ scan.keyframes[j].scene_change_score > config.threshold

\* C19: no two accepted keyframes of one extraction have perceptual hashes
\* closer than the dedup threshold.
C19_NoNearDuplicates ==
    \A i \in DOMAIN scan.keyframes : \A j \in DOMAIN scan.keyframes :
        i < j => Hamming(PHash(scan.keyframes[i].image),
                         PHash(scan.keyframes[j].image)) >= DedupThreshold

\* A returned extraction holds two keyframes of one content.
C19_Witness ==
    /\ scan.pc = "returned"
    /\ \E i \in DOMAIN scan.keyframes : \E j \in DOMAIN scan.keyframes :
          /\ i < j
          /\ scan.keyframes[i].image = scan.keyframes[j].image

\* The file is empty, has one frame, or has no frame above the threshold.
Quiet == Len(video) = 0 \/ Len(video) = 1 \/ Candidates = {}

\* C20: for an empty file, a file of one frame and a file with no frame
\* above the threshold the extraction, once called, does not raise and holds
\* no keyframe when it returns; the first frame is never a keyframe.
C20_QuietInput ==
    /\ [](\A i \in DOMAIN scan.keyframes : scan.keyframes[i].frame_number # 0)
    /\ [](scan.pc \in {"loop", "returned"} /\ Quiet => scan.keyframes = <<>>)
    /\ [][scan.pc \in {"ready", "loop"} /\ Quiet
            => scan'.pc \in {"loop", "returned"}]_vars

\* An extraction has returned nothing from a file of several frames of one
\* content (no luminance variation).
C20_Witness ==
    /\ scan.pc = "returned"
    /\ Len(video) >= 2
    /\ \A i \in DOMAIN video : video[i] = video[1]
    /\ scan.keyframes = <<>>

\* The file has one scene change above the threshold, at frame c, at least
\* MinIntervalSeconds after the start.
OneChangeAt(c) ==
    /\ Candidates = {c}
    /\ Timestamp(c, config.fps) >= MinIntervalSeconds * 100

\* C21: for a file with exactly one scene change above the threshold, at
\* least MinIntervalSeconds after the start, the extraction returns exactly
\* one keyframe, numbered as the first frame of the new scene.
C21_OneChangeOneKeyframe ==
    \A c \in 1..MaxFrames :
        scan.pc = "returned" /\ OneChangeAt(c)
            => /\ Len(scan.keyframes) = 1
               /\ scan.keyframes[1].frame_number = c
               /\ scan.keyframes[1].image = video[c + 1]

\* An extraction has returned from a file whose one scene change is two
\* frames after another, smaller change that only equals the threshold.
C21_Witness ==
    /\ scan.pc = "returned"
    /\ \E c \in 2..MaxFrames :
          /\ OneChangeAt(c)
          /\ SceneChange(video[c - 1], video[c]) = config.threshold
          /\ Len(scan.keyframes) = 1
          /\ scan.keyframes[1].frame_number = c

\* a is within one second of b (hundredths of a second).
About(a, b) == a <= b + 100 /\ b <= a + 100

\* C22: the extraction of the 118-second file of two scenes returns exactly
\* two keyframes, one at about 0 s and one at about 60 s.
C22_TwoKeyframes ==
    scan.pc = "returned"
        => /\ Len(scan.keyframes) = 2
           /\ About(scan.keyframes[1].timestamp, 0)
           /\ About(scan.keyframes[2].timestamp, ScenarioCut * 100)

\* C22 as amended: the extraction returns exactly one keyframe, the first
\* frame of the second scene, at 60 s; the frame at 0 s is not a keyframe.
C22_OneKeyframeAtCut ==
    scan.pc = "returned"
        => /\ Len(scan.keyframes) = 1
           /\ scan.keyframes[1].frame_number = ScenarioCut * config.fps
           /\ scan.keyframes[1].timestamp = ScenarioCut * 100
           /\ scan.keyframes[1].image = video[Len(video)]

\* The extraction of the scenario's file has read all 118 seconds and
\* returned one keyframe.
C22_Witness ==
    /\ scan.pc = "returned"
    /\ scan.frame_count = ScenarioSeconds * config.fps
    /\ config.threshold = DefaultThreshold
    /\ config.max_frames = DefaultMaxFrames
    /\ Len(scan.keyframes) = 1
    /\ scan.keyframes[1].timestamp = ScenarioCut * 100

\* The list is sorted by id and holds no id twice.
SortedById(view) == \A i \in DOMAIN view : \A j \in DOMAIN view : i < j => view[i].seq < view[j].seq

\* C24: during one effect of the SSE ProgressTerminal an entry displayed
\* stays displayed, whatever the order of the snapshot answer and the SSE
\* batches, and the list stays sorted by id without duplicates.
C24_DisplayNeverShrinks ==
    /\ [](SortedById(shown))
    /\ [][termStatus' = termStatus => Ids(shown) \subseteq Ids(shown')]_vars

\* The list displayed ends before the entry that was displayed when the
\* stream was reopened: an entry the stream had delivered is gone.
C24_Witness ==
    /\ termStatus = "processing"
    /\ es.state = "open"
    /\ es.reconnect
    /\ shown # <<>>
    /\ LastSeq(shown) < es.seen

\* C25: once the cleanup of an effect has run, no EventSource of that effect
\* is open: the terminal holds an open EventSource only under an effect that
\* ran with the status processing or uploading.
C25_NoStreamAfterCleanup ==
    termStatus \notin {"processing", "uploading"} => es.state # "open"

\* The component is unmounted and the reconnect timeout set before the
\* cleanup has opened an EventSource.
C25_Witness ==
    /\ termStatus = "unmounted"
    /\ es.state = "open"
    /\ es.reconnect
    /\ timers = <<>>

\* C23: in the polling ProgressTerminal of the detail page, once the media's
\* status on the server is completed or failed the polling interval is
\* eventually cleared, and no log request is sent from then on.
C23_PollingStops == Terminal(Watched) ~> [](~pollInterval)

\* The run is over, the page still shows the status it was opened with and
\* the interval is set.
C23_Witness ==
    /\ Terminal(Watched)
    /\ \A r \in RunIds : ~Live(r)
    /\ pageStatus = "processing"
    /\ pollStatus = "processing"
    /\ pollInterval
    /\ pollShown = log[Watched]
    /\ pollFetching = {}

\* C28: a record whose status is completed, on the server or as the client
\* has fetched it, has an Analysis and a Transcript of one run; a record in
\* failed has no Analysis of a run that failed.
C28_CompletedHasAnalysis ==
    \A m \in Media :
        /\ status[m] = "completed"
              => \E r \in RunIds : r \in Range(analyses[m]) /\ r \in Range(transcripts[m])
        /\ clientStatus[m] = "completed"
              => analyses[m] # <<>> /\ transcripts[m] # <<>>
        /\ status[m] = "failed"
              => \A r \in RunIds : StageErrors(m, r) # {} => r \notin Range(analyses[m])

\* A record is completed by a retry, after a run that failed in synthesize:
\* it has the Analysis of the retry only, and the client shows it completed.
C28_Witness ==
    \E m \in Media : \E r \in RunIds : \E q \in RunIds :
        /\ status[m] = "completed"
        /\ clientStatus[m] = "completed"
        /\ analyses[m] = <<r>>
        /\ r \in Range(transcripts[m])
        /\ q # r
        /\ \E i \in StageErrors(m, q) : log[m][i].stage = "synthesize"

\* C26: at most one status-polling interval is live, AppState.pollingInterval
\* holds its handle, and it holds none when no interval is live.
C26_OnePollingTimer ==
    /\ Cardinality(liveTimers) <= 1
    /\ \A t \in liveTimers : t.handle = pollingInterval
    /\ liveTimers = {} => pollingInterval = 0

\* The detail view of a processing video has set its interval, and the
\* upload of another media made after it has set a second one: both are
\* live, the handle of the first is lost.
C26_Witness ==
    \E t \in liveTimers : \E u \in liveTimers :
        /\ t.by = "videos"
        /\ u.by = "upload"
        /\ u.handle = pollingInterval
        /\ t.handle # pollingInterval
        /\ t.media # u.media

\* C27: the detail view renders no video but the one the user opened last,
\* AppState.currentVideoId.
C27_DetailIsCurrent == detailShown # 0 => detailShown = currentVideoId

\* The poll of a video opened earlier is still live while another video is
\* the one opened last, and the detail view renders the earlier video.
C27_Witness ==
    /\ detailShown # 0
    /\ currentVideoId # 0
    /\ detailShown # currentVideoId
    /\ detailRequests = {}
    /\ Terminal(detailShown)

\* The extension of a file is one of the supported formats, and kind is the
\* media type of that format.
Supported(file, type) ==
    \/ Ext(file) \in VIDEO_FORMATS /\ type = "video"
    \/ Ext(file) \in AUDIO_FORMATS /\ type = "audio"

\* C29: the selected file, if any, has a supported extension and the current
\* media type is the kind of that extension; no upload request carries a
\* file of an unsupported format.
C29_SelectedIsSupported ==
    /\ selectedFile # NoFile => Supported(selectedFile, currentMediaType)
    /\ \A u \in uploads : Ext(u.file) \in VIDEO_FORMATS \cup AUDIO_FORMATS

\* A file of an unsupported format was selected while the drop zone showed
\* a supported one, and the start button has sent it.
C29_Witness ==
    \E u \in uploads :
        /\ Ext(u.file) \notin VIDEO_FORMATS \cup AUDIO_FORMATS
        /\ Supported(dropZone, u.type)
        /\ selectedFile = u.file

\* C30: the last click on an apply, activate or delete button has triggered
\* its handler exactly once.
C30_OneClickOneCall == lastClick # "none" => handled = 1

\* The settings view was opened twice and showed saved configurations both
\* times: one click on a delete button has called deleteConfig twice.
C30_Witness ==
    /\ lastClick = "delete"
    /\ handled = 2
    /\ docListeners = 2
    /\ listListeners = 2

====
